---- MODULE Spec2Model ----
(***************************************************************************)
(* Model of light-audio-player (src/light-audio-player/src/main.rs).       *)
(*                                                                         *)
(* Four threads: main (joins the three others), the player (owns the sink  *)
(* and the song list, consumes the command channel), the input thread      *)
(* (reads stdin, produces commands) and the life-support thread (polls the *)
(* queue length, produces DontDie).  Channels are std::sync::mpsc          *)
(* channels: unbounded FIFO, send fails once the receiver is dropped, recv *)
(* fails once the buffer is empty and every sender is dropped.             *)
(***************************************************************************)
EXTENDS Integers, Sequences, FiniteSets, TLC

VARIABLES
    songs,      \* player: the slice `songs` (paths), reordered by every shuffle
    bad,        \* the paths that File::open / Decoder::new fail on
    sink,       \* rodio Sink: the sources appended and not yet finished, in order
    paused,     \* rodio Sink: paused flag (sink.play / sink.pause)
    volume,     \* rodio Sink: volume, in units of 0.05
    running,    \* player: `let mut running`
    stopped,    \* the player has been through the Stop arm
    playerPc,   \* player: position
    cmd,        \* the channel (to_player, rcv_player): messages in flight
    lsReply,    \* the channel (to_life_support, rcv_queue): lengths in flight
    inReply,    \* the channel (to_input, rcv_input): lengths in flight
    buf,        \* input_thread: `let mut buf`
    inputPc,    \* input_thread: position
    inputWhy,   \* input_thread: what ended it ("" while it runs)
    shown,      \* input_thread: the last reply it printed (NoReply before any)
    reads,      \* number of read_line calls made so far
    length,     \* life_support_thread: `let length` of the cycle
    lsPc,       \* life_support_thread: position
    lsSent,     \* life_support_thread: DontDie sends attempted in the cycle
    finished,   \* number of sources that ended on their own so far
    mainPc      \* main: position

vars == << songs, bad, sink, paused, volume, running, stopped, playerPc, cmd,
           lsReply, inReply, buf, inputPc, inputWhy, shown, reads, length,
           lsPc, lsSent, finished, mainPc >>

----------------------------------------------------------------------------
(* Bounds of the model *)

\* read_line calls the operator answers before leaving the terminal idle
MaxReads == 2
\* sources that play to their end during a run
MaxFinish == 1
\* the largest volume a press is tried from, in units of 0.05
MaxVolume == 60

----------------------------------------------------------------------------
(* Constants and types of the program *)

\* the directory entries main collects into `paths`
Tracks == {"A", "B"}

\* VOLUME_ADJUSTMENT = 0.1, in model units of 0.05
VOLUME_ADJUSTMENT == 2
\* the volume a new rodio Sink has, 1.0, in model units of 0.05
InitialVolume == 20

\* KEEP_ALIVE_TIME (seconds); the model has no clock, the sleep is one step
KEEP_ALIVE_TIME == 30

Contents == {"Play", "Pause", "Stop", "Skip", "VDown", "VUp", "HowMany", "DontDie"}
Origin == {"LifeSupport", "Input"}

\* the two threads that hold a Sender<Message>
InputThread == "input"
LifeSupportThread == "life_support"

\* Message::new; `by` is the thread that executes the call (not a field of the
\* program's Message, which carries only contents and origin)
Message(contents, origin, by) == [contents |-> contents, origin |-> origin, by |-> by]

NoReply == -1

NL == "\n"

\* what one read_line call can append to buf: a line with its newline, a
\* line cut by end-of-file (no newline), or nothing at end-of-file
Words == { <<"p">>, <<"=">>, <<"s", "t", "o", "p">>, <<"s">>, <<"+">>, <<"-">>,
           <<"q">>, <<"t", "o", "p">>, <<"x">> }
Chunks == Words \cup { w \o <<NL>> : w \in Words } \cup { <<>> }

\* `match buf.as_str()`: the contents the matched arm sends, "None" for `&_`
Match(b) ==
    CASE b = <<"p">> -> "Play"
      [] b = <<"=">> -> "Pause"
      [] b = <<"s", "t", "o", "p">> -> "Stop"
      [] b = <<"s">> -> "Skip"
      [] b = <<"+">> -> "VUp"
      [] b = <<"-">> -> "VDown"
      [] b = <<"q">> -> "HowMany"
      [] OTHER -> "None"

Range(s) == { s[i] : i \in 1..Len(s) }

\* songs.shuffle(&mut rng): every reordering of the slice
Shuffles(s) == { p \in [1..Len(s) -> Range(s)] :
                   \A x \in Range(s) :
                     Cardinality({ i \in 1..Len(s) : p[i] = x }) =
                     Cardinality({ i \in 1..Len(s) : s[i] = x }) }

\* play_song: File::open(song).unwrap(), Decoder::new(file).unwrap()
Loads(song) == song \notin bad

----------------------------------------------------------------------------
(* Which ends of the channels are alive *)

PlayerAlive == playerPc \in {"start", "loop"}
InputAlive == inputPc \in {"top", "read", "reply"}
LsAlive == lsPc \in {"query", "wait"}
\* main returning, or panicking in expect, ends the process and every thread
ProcessAlive == mainPc \in {"join_player", "join_input", "join_ls"}

\* Sender<Message>::send succeeds while rcv_player is not dropped
CmdOpen == PlayerAlive
\* rcv_player.recv() fails when the buffer is empty and both senders are dropped
CmdDisconnected == cmd = <<>> /\ ~InputAlive /\ ~LsAlive

----------------------------------------------------------------------------
Init ==
    /\ songs \in { <<"A">>, <<"A", "B">> }
    /\ bad \in SUBSET Range(songs)
    /\ sink = <<>>
    /\ paused = FALSE
    /\ volume = InitialVolume
    /\ running = TRUE
    /\ stopped = FALSE
    /\ playerPc = "start"
    /\ cmd = <<>>
    /\ lsReply = <<>>
    /\ inReply = <<>>
    /\ buf = <<>>
    /\ inputPc = "top"
    /\ inputWhy = ""
    /\ shown = NoReply
    /\ reads = 0
    /\ length = NoReply
    /\ lsPc = "query"
    /\ lsSent = 0
    /\ finished = 0
    /\ mainPc = "join_player"

----------------------------------------------------------------------------
(* The player thread *)

\* a refill that replaces what the sink holds
AppendAllCleared(q, p) == p

\* the loop of shuffle_and_queue over a slice whose songs all load:
\* sink.append of each song in slice order, after what the sink already holds
AppendAll(q, p) == q \o p

\* the player thread ends (return or unwind): rcv_player, to_input, to_ls and
\* the sink are dropped; the messages still buffered go with the receiver
PlayerEnds(pc) ==
    /\ playerPc' = pc
    /\ cmd' = <<>>
    /\ sink' = <<>>

\* shuffle_and_queue(&sink, songs), called with `rest` left in the command
\* channel: shuffle, then play_song on each song in order; play_song panics
\* (unwrap) on the first song that does not load
ShuffleAndQueue(rest) ==
    \E p \in Shuffles(songs) :
        /\ songs' = p
        /\ IF \A i \in 1..Len(p) : Loads(p[i])
           THEN /\ sink' = AppendAll(sink, p)
                /\ playerPc' = "loop"
                /\ cmd' = rest
           ELSE PlayerEnds("panicked")

\* player, line 63: the startup queueing
PlayerStartup ==
    /\ ProcessAlive
    /\ playerPc = "start"
    /\ ShuffleAndQueue(cmd)
    /\ UNCHANGED << bad, paused, volume, running, stopped, lsReply, inReply, buf,
                    inputPc, inputWhy, shown, reads, length, lsPc, lsSent,
                    finished, mainPc >>

\* the loop is left: line 65 finds running = false and line 95 returns
\* Ok(()), or line 66 finds the channel disconnected and unwrap panics
PlayerLeaves ==
    /\ ProcessAlive
    /\ playerPc = "loop"
    /\ IF ~running
       THEN PlayerEnds("done")
       ELSE CmdDisconnected /\ PlayerEnds("panicked")
    /\ UNCHANGED << songs, bad, paused, volume, running, stopped, lsReply,
                    inReply, buf, inputPc, inputWhy, shown, reads, length, lsPc,
                    lsSent, finished, mainPc >>

\* lines 65-67: the loop runs, rcv.recv() returns the oldest message, and
\* `match msg.contents` enters the arm for contents c
Arm(c) ==
    /\ ProcessAlive
    /\ playerPc = "loop"
    /\ running
    /\ cmd # <<>>
    /\ Head(cmd).contents = c

\* the arm ends and the loop goes round
ArmDone ==
    /\ playerPc' = "loop"
    /\ cmd' = Tail(cmd)

\* line 68: sink.play()
DoPlay ==
    /\ Arm("Play")
    /\ paused' = FALSE
    /\ ArmDone
    /\ UNCHANGED << songs, bad, sink, volume, running, stopped, lsReply, inReply,
                    buf, inputPc, inputWhy, shown, reads, length, lsPc, lsSent,
                    finished, mainPc >>

\* line 69: sink.pause()
DoPause ==
    /\ Arm("Pause")
    /\ paused' = TRUE
    /\ ArmDone
    /\ UNCHANGED << songs, bad, sink, volume, running, stopped, lsReply, inReply,
                    buf, inputPc, inputWhy, shown, reads, length, lsPc, lsSent,
                    finished, mainPc >>

\* rodio Sink::skip_one: drops the current source when there is one
SkipOne(q) == IF q = <<>> THEN <<>> ELSE Tail(q)

\* line 70: sink.skip_one()
DoSkip ==
    /\ Arm("Skip")
    /\ sink' = SkipOne(sink)
    /\ ArmDone
    /\ UNCHANGED << songs, bad, paused, volume, running, stopped, lsReply,
                    inReply, buf, inputPc, inputWhy, shown, reads, length, lsPc,
                    lsSent, finished, mainPc >>

\* a Stop arm that forgets the flag
RunningAfterStopKept == TRUE

\* line 71: the value the Stop arm gives `running`
RunningAfterStop == FALSE

\* line 71: running = false; sink.stop()
DoStop ==
    /\ Arm("Stop")
    /\ running' = RunningAfterStop
    /\ stopped' = TRUE
    /\ sink' = <<>>
    /\ ArmDone
    /\ UNCHANGED << songs, bad, paused, volume, lsReply, inReply, buf, inputPc,
                    inputWhy, shown, reads, length, lsPc, lsSent, finished,
                    mainPc >>

\* a VDown arm without the floor
VolumeDownUnclamped(v) == v - VOLUME_ADJUSTMENT

\* lines 73-78: the volume the VDown arm sets
VolumeDown(v) == IF v >= VOLUME_ADJUSTMENT THEN v - VOLUME_ADJUSTMENT ELSE 0
\* lines 81-82: the volume the VUp arm sets
VolumeUp(v) == v + VOLUME_ADJUSTMENT

\* lines 72-79
DoVDown ==
    /\ Arm("VDown")
    /\ volume' = VolumeDown(volume)
    /\ ArmDone
    /\ UNCHANGED << songs, bad, sink, paused, running, stopped, lsReply, inReply,
                    buf, inputPc, inputWhy, shown, reads, length, lsPc, lsSent,
                    finished, mainPc >>

\* lines 80-83
DoVUp ==
    /\ Arm("VUp")
    /\ volume' = VolumeUp(volume)
    /\ ArmDone
    /\ UNCHANGED << songs, bad, sink, paused, running, stopped, lsReply, inReply,
                    buf, inputPc, inputWhy, shown, reads, length, lsPc, lsSent,
                    finished, mainPc >>

\* line 84: shuffle_and_queue(&sink, songs)
DoDontDie ==
    /\ Arm("DontDie")
    /\ ShuffleAndQueue(Tail(cmd))
    /\ UNCHANGED << bad, paused, volume, running, stopped, lsReply, inReply, buf,
                    inputPc, inputWhy, shown, reads, length, lsPc, lsSent,
                    finished, mainPc >>

\* a HowMany arm that answers every origin on the life-support channel
ReplyChannelShared(origin) == "ls"

\* line 87: the reply channel `match msg.origin` selects
ReplyChannel(origin) == IF origin = "LifeSupport" THEN "ls" ELSE "input"

\* a reply: the length, and (not part of the usize the program sends) the
\* thread whose HowMany it answers
Reply(n, m) == [value |-> n, asker |-> m.by]

\* lines 85-91: to_ls.send(sink.len()).unwrap() or
\* to_input.send(sink.len()).unwrap(); send fails once the receiver is dropped
DoHowMany ==
    /\ Arm("HowMany")
    /\ LET m == Head(cmd)
       IN  IF ReplyChannel(m.origin) = "ls"
           THEN IF LsAlive
                THEN /\ lsReply' = Append(lsReply, Reply(Len(sink), m))
                     /\ inReply' = inReply
                     /\ sink' = sink
                     /\ ArmDone
                ELSE /\ PlayerEnds("panicked")
                     /\ UNCHANGED << lsReply, inReply >>
           ELSE IF InputAlive
                THEN /\ inReply' = Append(inReply, Reply(Len(sink), m))
                     /\ lsReply' = lsReply
                     /\ sink' = sink
                     /\ ArmDone
                ELSE /\ PlayerEnds("panicked")
                     /\ UNCHANGED << lsReply, inReply >>
    /\ UNCHANGED << songs, bad, paused, volume, running, stopped, buf, inputPc,
                    inputWhy, shown, reads, length, lsPc, lsSent, finished,
                    mainPc >>

\* rodio: the current source plays to its end (the sink is neither paused
\* nor empty) and leaves the queue
TrackFinish ==
    /\ ProcessAlive
    /\ PlayerAlive
    /\ finished < MaxFinish
    /\ ~paused
    /\ sink # <<>>
    /\ sink' = Tail(sink)
    /\ finished' = finished + 1
    /\ UNCHANGED << songs, bad, paused, volume, running, stopped, playerPc, cmd,
                    lsReply, inReply, buf, inputPc, inputWhy, shown, reads,
                    length, lsPc, lsSent, mainPc >>

----------------------------------------------------------------------------
(* The input thread *)

\* a poll tagged with the thread that sends it
PollOriginInput == "Input"

\* line 104: the origin of the HowMany that opens every iteration
PollOrigin == "LifeSupport"

\* a line message tagged like the poll of line 104
LineOriginLifeSupport == "LifeSupport"

\* lines 118-125: the origin of the message a matched line sends
LineOrigin == "Input"

\* the input thread ends (break, `?`, or unwind): rcv_input and buf are dropped
InputEnds(pc, why) ==
    /\ inputPc' = pc
    /\ inputWhy' = why
    /\ buf' = <<>>
    /\ inReply' = <<>>

\* lines 104-106: to.send(HowMany, LifeSupport), break when the send fails
InputQuery ==
    /\ ProcessAlive
    /\ inputPc = "top"
    /\ IF CmdOpen
       THEN /\ cmd' = Append(cmd, Message("HowMany", PollOrigin, InputThread))
            /\ inputPc' = "read"
            /\ UNCHANGED << inputWhy, buf, inReply >>
       ELSE /\ InputEnds("done", "closed")
            /\ cmd' = cmd
    /\ UNCHANGED << songs, bad, sink, paused, volume, running, stopped, playerPc,
                    lsReply, shown, reads, length, lsPc, lsSent, finished,
                    mainPc >>

\* lines 116-129 when read_line delivers `chunk`: it is appended to buf
\* (never cleared), the whole of buf is matched, the matched arm sends with
\* unwrap, `&_` is todo!()
InputReads(chunk) ==
    /\ ProcessAlive
    /\ inputPc = "read"
    /\ reads < MaxReads
    /\ reads' = reads + 1
    /\ LET b == buf \o chunk
           c == Match(b)
       IN  IF c = "None"
           THEN InputEnds("panicked", "todo") /\ cmd' = cmd
           ELSE IF ~CmdOpen
           THEN InputEnds("panicked", "send") /\ cmd' = cmd
           ELSE /\ cmd' = Append(cmd, Message(c, LineOrigin, InputThread))
                /\ buf' = b
                /\ inputPc' = IF c = "HowMany" THEN "reply" ELSE "top"
                /\ UNCHANGED << inputWhy, inReply >>
    /\ UNCHANGED << songs, bad, sink, paused, volume, running, stopped, playerPc,
                    lsReply, shown, length, lsPc, lsSent, finished, mainPc >>

\* lines 116-129: the operator's next line, whatever it is
InputReadLine == \E chunk \in Chunks : InputReads(chunk)

\* line 116: read_line fails, `?` returns the error and the thread ends
InputReadError ==
    /\ ProcessAlive
    /\ inputPc = "read"
    /\ reads < MaxReads
    /\ reads' = reads + 1
    /\ InputEnds("done", "read_error")
    /\ UNCHANGED << songs, bad, sink, paused, volume, running, stopped, playerPc,
                    cmd, lsReply, shown, length, lsPc, lsSent, finished,
                    mainPc >>

\* line 126: rcv.recv().unwrap(), printed
InputRecvReply ==
    /\ ProcessAlive
    /\ inputPc = "reply"
    /\ IF inReply # <<>>
       THEN /\ shown' = Head(inReply).value
            /\ inReply' = Tail(inReply)
            /\ inputPc' = "top"
            /\ UNCHANGED << inputWhy, buf >>
       ELSE /\ ~PlayerAlive
            /\ InputEnds("panicked", "recv")
            /\ shown' = shown
    /\ UNCHANGED << songs, bad, sink, paused, volume, running, stopped, playerPc,
                    cmd, lsReply, reads, length, lsPc, lsSent, finished,
                    mainPc >>

----------------------------------------------------------------------------
(* The life-support thread *)

\* a threshold that waits for the queue to be empty
NeedsRefillWhenEmpty(n) == n < 1

\* line 141: `length <= 1`
NeedsRefill(n) == n <= 1

\* the life-support thread ends (break or unwind): rcv_queue is dropped
LsEnds(pc) ==
    /\ lsPc' = pc
    /\ lsReply' = <<>>

\* line 144 of the cycle before (the sleep), then lines 137-139:
\* to.send(HowMany, LifeSupport), break when the send fails
LsQuery ==
    /\ ProcessAlive
    /\ lsPc = "query"
    /\ length' = NoReply
    /\ lsSent' = 0
    /\ IF CmdOpen
       THEN /\ cmd' = Append(cmd, Message("HowMany", "LifeSupport", LifeSupportThread))
            /\ lsPc' = "wait"
            /\ lsReply' = lsReply
       ELSE /\ LsEnds("done")
            /\ cmd' = cmd
    /\ UNCHANGED << songs, bad, sink, paused, volume, running, stopped, playerPc,
                    inReply, buf, inputPc, inputWhy, shown, reads, finished,
                    mainPc >>

\* lines 140-143: let length = rcv.recv().unwrap();
\* if length <= 1 { let _ = to.send(DontDie, LifeSupport) }
LsPoll ==
    /\ ProcessAlive
    /\ lsPc = "wait"
    /\ IF lsReply # <<>>
       THEN LET n == Head(lsReply).value
            IN  /\ length' = n
                /\ lsReply' = Tail(lsReply)
                /\ lsPc' = "query"
                /\ IF NeedsRefill(n)
                   THEN /\ lsSent' = lsSent + 1
                        /\ cmd' = IF CmdOpen
                                  THEN Append(cmd, Message("DontDie", "LifeSupport",
                                                           LifeSupportThread))
                                  ELSE cmd
                   ELSE UNCHANGED << lsSent, cmd >>
       ELSE /\ ~PlayerAlive
            /\ LsEnds("panicked")
            /\ UNCHANGED << length, lsSent, cmd >>
    /\ UNCHANGED << songs, bad, sink, paused, volume, running, stopped, playerPc,
                    inReply, buf, inputPc, inputWhy, shown, reads, finished,
                    mainPc >>

----------------------------------------------------------------------------
(* main, after the three spawns *)

\* JoinHandle::join().expect(..): Err, and so a panic of main, exactly when
\* the joined thread panicked
Joined(pc, next) ==
    CASE pc = "done" -> next
      [] pc = "panicked" -> "exit_101"

\* line 183
MainJoinPlayer ==
    /\ mainPc = "join_player"
    /\ playerPc \in {"done", "panicked"}
    /\ mainPc' = Joined(playerPc, "join_input")
    /\ UNCHANGED << songs, bad, sink, paused, volume, running, stopped, playerPc,
                    cmd, lsReply, inReply, buf, inputPc, inputWhy, shown, reads,
                    length, lsPc, lsSent, finished >>

\* line 184
MainJoinInput ==
    /\ mainPc = "join_input"
    /\ inputPc \in {"done", "panicked"}
    /\ mainPc' = Joined(inputPc, "join_ls")
    /\ UNCHANGED << songs, bad, sink, paused, volume, running, stopped, playerPc,
                    cmd, lsReply, inReply, buf, inputPc, inputWhy, shown, reads,
                    length, lsPc, lsSent, finished >>

\* lines 185-186
MainJoinLs ==
    /\ mainPc = "join_ls"
    /\ lsPc \in {"done", "panicked"}
    /\ mainPc' = Joined(lsPc, "exit_0")
    /\ UNCHANGED << songs, bad, sink, paused, volume, running, stopped, playerPc,
                    cmd, lsReply, inReply, buf, inputPc, inputWhy, shown, reads,
                    length, lsPc, lsSent, finished >>

----------------------------------------------------------------------------
Player ==
    \/ PlayerStartup \/ PlayerLeaves
    \/ DoPlay \/ DoPause \/ DoSkip \/ DoStop \/ DoVDown \/ DoVUp
    \/ DoDontDie \/ DoHowMany

Input == InputQuery \/ InputReadLine \/ InputReadError \/ InputRecvReply

LifeSupport == LsQuery \/ LsPoll

Main == MainJoinPlayer \/ MainJoinInput \/ MainJoinLs

Next == Player \/ Input \/ LifeSupport \/ Main \/ TrackFinish

Spec == Init /\ [][Next]_vars

\* the threads are scheduled fairly; the operator (read_line) and the tracks
\* (TrackFinish) owe nothing
FairSpec ==
    /\ Spec
    /\ WF_vars(Player)
    /\ WF_vars(InputQuery)
    /\ WF_vars(InputRecvReply)
    /\ WF_vars(LifeSupport)
    /\ WF_vars(Main)

----------------------------------------------------------------------------
(* Vocabulary of the properties *)

\* this step is the player handling the oldest message, of contents c, to
\* the end of its arm
Handles(c) ==
    /\ Arm(c)
    /\ cmd' = Tail(cmd)
    /\ playerPc' = "loop"

\* this step is the player handling some message to the end of its arm
HandlesAny == \E c \in Contents : Handles(c)

\* a thread has come to its end, or the process has
PlayerOver == ~PlayerAlive \/ ~ProcessAlive
InputOver == ~InputAlive \/ ~ProcessAlive
LsOver == ~LsAlive \/ ~ProcessAlive

\* every path loads and there are at least two
TwoLoadable == Len(songs) >= 2 /\ \A i \in 1..Len(songs) : Loads(songs[i])

Count(q, x) == Cardinality({ i \in 1..Len(q) : q[i] = x })
SameMultiset(a, b) ==
    /\ Len(a) = Len(b)
    /\ \A x \in Range(a) \cup Range(b) : Count(a, x) = Count(b, x)

\* HowMany messages of origin o waiting in the command channel
Queries(o) ==
    Cardinality({ i \in 1..Len(cmd) :
                    cmd[i].contents = "HowMany" /\ cmd[i].origin = o })

----------------------------------------------------------------------------
(* C1 *)

\* C1: once the player has been through the Stop arm it handles no further
\* message, whatever is still in the command channel or sent to it later,
\* and its loop ends: the only step left to it is the return.
C1_StopEndsPlayer ==
    /\ [][stopped => ~HandlesAny]_vars
    /\ [](stopped /\ PlayerAlive /\ ProcessAlive => ENABLED PlayerLeaves /\ ~running)

\* Stop has been handled while another message waits behind it
C1_Witness == stopped /\ playerPc = "loop" /\ cmd # <<>>

(* C2 *)

\* C2: once the player has returned, life-support ends without a panic,
\* also when it was waiting for a reply at that moment.
C2_LsEndsCleanly == playerPc = "done" => lsPc # "panicked"

(* C3 *)

\* C3: once the player has returned, no send on the closed command channel
\* and no wait on the reply channel makes the input thread panic.
C3_InputEndsCleanly == playerPc = "done" => inputWhy \notin {"send", "recv"}

(* C4 *)

\* C4: after Stop, once no thread can take a step without a further line
\* from the operator, all three threads have ended.
C4_StopShutsDown ==
    (stopped /\ ~ENABLED (Player \/ InputQuery \/ InputRecvReply \/ LifeSupport \/ Main))
        => (PlayerOver /\ InputOver /\ LsOver)

(* C5 *)

\* C5: every reply on the life-support reply channel answers a HowMany the
\* life-support thread sent, every reply on the input reply channel answers
\* a HowMany the input thread sent.
C5_ReplyReachesAsker ==
    /\ \A i \in 1..Len(lsReply) : lsReply[i].asker = LifeSupportThread
    /\ \A i \in 1..Len(inReply) : inReply[i].asker = InputThread

(* C6 *)

\* C6: handling HowMany of origin LifeSupport adds exactly one value, the
\* sink's length, to the life-support reply channel and nothing to the input
\* reply channel; of origin Input, one value to the input reply channel and
\* nothing to the other; handling any other message adds no reply.
C6_OriginIsolation ==
    [][ /\ (Handles("HowMany") /\ Head(cmd).origin = "LifeSupport") =>
             /\ Len(lsReply') = Len(lsReply) + 1
             /\ lsReply'[Len(lsReply')].value = Len(sink)
             /\ inReply' = inReply
        /\ (Handles("HowMany") /\ Head(cmd).origin = "Input") =>
             /\ Len(inReply') = Len(inReply) + 1
             /\ inReply'[Len(inReply')].value = Len(sink)
             /\ lsReply' = lsReply
        /\ (\E c \in Contents \ {"HowMany"} : Handles(c)) =>
             /\ lsReply' = lsReply
             /\ inReply' = inReply
      ]_vars

\* both reply channels hold an answer
C6_Witness == Len(inReply) = 1 /\ Len(lsReply) >= 1

(* C7 *)

\* C7: for each origin, the HowMany messages of that origin in the command
\* channel plus the unread replies in its reply channel number at most one.
C7_OneOutstanding ==
    /\ Queries("LifeSupport") + Len(lsReply) <= 1
    /\ Queries("Input") + Len(inReply) <= 1

(* C8 *)

\* C8: in the step in which life-support receives a length, it sends one
\* DontDie (appended to the command channel while that is open) exactly
\* when the length is <= 1, and nothing when it is > 1; its next HowMany
\* comes only after that step.
C8_RefillWhenLow ==
    [][ (lsPc = "wait" /\ lsPc' = "query") =>
          LET n == Head(lsReply).value
          IN  /\ length' = n
              /\ n <= 1 =>
                   /\ lsSent' = 1
                   /\ CmdOpen => cmd' = Append(cmd, Message("DontDie", "LifeSupport",
                                                            LifeSupportThread))
              /\ n > 1 => lsSent' = 0 /\ cmd' = cmd
      ]_vars

\* a cycle that received a length <= 1 and whose DontDie is in the channel
C8_Witness ==
    /\ lsPc = "query" /\ length \in {0, 1} /\ lsSent = 1
    /\ \E i \in 1..Len(cmd) : cmd[i].contents = "DontDie"

(* C9 *)

\* C9: with at least two loadable songs, after the startup queueing and
\* before Stop, the sink holds at least one source.
C9_NeverDry ==
    (TwoLoadable /\ playerPc = "loop" /\ ~stopped) => Len(sink) >= 1

(* C10 *)

\* C10: handling DontDie with songs that all load keeps what the sink
\* holds, in order, and appends one copy of every song in the order the
\* shuffle left them; the songs are the same multiset as before; the depth
\* grows by the number of songs.
C10_RefillAppends ==
    [][ Handles("DontDie") =>
          /\ SameMultiset(songs', songs)
          /\ Len(sink') = Len(sink) + Len(songs)
          /\ \A i \in 1..Len(sink) : sink'[i] = sink[i]
          /\ \A i \in 1..Len(songs) : sink'[Len(sink) + i] = songs'[i]
          /\ Len(songs) >= 1 => Len(sink') > Len(sink)
      ]_vars

\* a refill of two songs has been appended behind a source that was pending
C10_Witness ==
    /\ Len(songs) = 2 /\ Len(sink) = 3
    /\ sink[2] # sink[3]

(* C11 *)

\* C11: a song that does not load is skipped; it does not end the player,
\* neither in the startup queueing nor in a refill.
C11_BadSongSkipped == bad # {} => playerPc # "panicked"

(* C12 *)

\* the contents the specification's table gives a word
Command(w) ==
    CASE w = <<"p">> -> "Play"
      [] w = <<"=">> -> "Pause"
      [] w = <<"s", "t", "o", "p">> -> "Stop"
      [] w = <<"s">> -> "Skip"
      [] w = <<"+">> -> "VUp"
      [] w = <<"-">> -> "VDown"
      [] w = <<"q">> -> "HowMany"

CommandWords == { <<"p">>, <<"=">>, <<"s", "t", "o", "p">>, <<"s">>, <<"+">>,
                  <<"-">>, <<"q">> }

\* C12: whenever the input thread waits for a line, on the first line as on
\* a later one, and the command channel is open, it can take each of the
\* seven command lines (the word and its newline, as read_line delivers it)
\* and then sends exactly the message of that command, tagged Input, and
\* waits for the reply exactly when the command is HowMany.
C12_LineMapsToCommand ==
    (ProcessAlive /\ inputPc = "read" /\ reads < MaxReads /\ CmdOpen) =>
        \A w \in CommandWords :
            ENABLED ( /\ InputReads(w \o <<NL>>)
                      /\ cmd' = Append(cmd, Message(Command(w), "Input", InputThread))
                      /\ inputPc' = IF w = <<"q">> THEN "reply" ELSE "top" )

(* C13 *)

\* the player in its loop, any volume in the sink, and one volume press of
\* the input thread (stdin `-` or `+` cut by end-of-file) waiting in the
\* command channel behind the poll the player has just answered
VolInit ==
    /\ songs = <<"A", "B">>
    /\ bad = {}
    /\ sink = <<"A", "B">>
    /\ paused = FALSE
    /\ volume \in 0..MaxVolume
    /\ running = TRUE
    /\ stopped = FALSE
    /\ playerPc = "loop"
    /\ \E c \in {"VDown", "VUp"} :
         /\ cmd = << Message(c, LineOrigin, InputThread) >>
         /\ buf = IF c = "VDown" THEN <<"-">> ELSE <<"+">>
    /\ lsReply = << [value |-> 2, asker |-> InputThread] >>
    /\ inReply = <<>>
    /\ inputPc = "top"
    /\ inputWhy = ""
    /\ shown = NoReply
    /\ reads = 1
    /\ length = NoReply
    /\ lsPc = "query"
    /\ lsSent = 0
    /\ finished = 0
    /\ mainPc = "join_player"

VolNext == DoVDown \/ DoVUp

VolSpec == VolInit /\ [][VolNext]_vars

\* C13: the volume is never negative; the VDown arm sets it to
\* max(v - unit, 0), so never above v, and to exactly 0 from 0.05; the VUp
\* arm sets it to v + unit, with no clamp.
C13_VolumeArithmetic ==
    /\ [](volume >= 0)
    /\ [][ /\ Handles("VDown") =>
                /\ volume' = IF volume - VOLUME_ADJUSTMENT > 0
                             THEN volume - VOLUME_ADJUSTMENT ELSE 0
                /\ volume' <= volume
                /\ volume = 1 => volume' = 0
           /\ Handles("VUp") => volume' = volume + VOLUME_ADJUSTMENT
         ]_vars

\* VDown has been handled and left the volume at the floor
C13_Witness == volume = 0 /\ buf = <<"-">> /\ cmd = <<>>

(* C14 *)

C15_PanicSurfaces == (inputWhy = "todo") ~> (mainPc = "exit_101")

(* C16 *)

\* C16: while the player runs, a sender of the command channel is alive, so
\* its recv never finds the channel disconnected; whenever it is about to
\* answer a HowMany, the receiver of the reply channel the origin selects
\* is alive; so no channel operation ends the player: it panics only on a
\* song that does not load.
C16_PlayerChannelsLive ==
    /\ (PlayerAlive /\ ProcessAlive) => (InputAlive \/ LsAlive)
    /\ ~(playerPc = "loop" /\ running /\ CmdDisconnected)
    /\ Arm("HowMany") =>
         IF Head(cmd).origin = "LifeSupport" THEN LsAlive ELSE InputAlive
    /\ playerPc = "panicked" => bad # {}

\* the player waits on an empty command channel with the input thread gone
\* and life-support waiting for its reply
C16_Witness ==
    /\ playerPc = "loop" /\ running /\ cmd = <<>> /\ ProcessAlive
    /\ inputPc = "panicked" /\ lsPc = "wait"

(* C17 *)

\* C17: the player comes to a DontDie only with at most one source pending,
\* so the sink never holds more than the number of songs plus one.
C17_QueueBounded ==
    /\ Arm("DontDie") => Len(sink) <= 1
    /\ Len(sink) <= Len(songs) + 1

(* C18 *)

\* C18: a thread that waits on its reply channel stops waiting, by a value
\* or by the closure, unless the process ends first; and the player never
\* waits for a command while a requester waits on an empty reply channel.
C18_ReplyWaitEnds ==
    /\ (lsPc = "wait") ~> (lsPc # "wait" \/ ~ProcessAlive)
    /\ (inputPc = "reply") ~> (inputPc # "reply" \/ ~ProcessAlive)
    /\ [](~( /\ playerPc = "loop" /\ running /\ cmd = <<>>
             /\ \/ lsPc = "wait" /\ lsReply = <<>>
                \/ inputPc = "reply" /\ inReply = <<>> ))

\* both requesters wait at once and no reply has been sent yet
C18_Witness ==
    /\ lsPc = "wait" /\ inputPc = "reply"
    /\ lsReply = <<>> /\ inReply = <<>>
    /\ playerPc = "loop"

(* C19 *)

\* C19: the input reply channel holds at most one value, none unless the
\* input thread waits for it, and only answers to the input thread; the
\* player puts the depth it reads into the empty channel when it handles the
\* HowMany/Input the input thread waits on, and that is the value the input
\* thread then prints.
C19_ShownAnswersQuery ==
    /\ [](/\ Len(inReply) <= 1
          /\ inputPc # "reply" => inReply = <<>>
          /\ \A i \in 1..Len(inReply) : inReply[i].asker = InputThread)
    /\ [][ (Handles("HowMany") /\ Head(cmd).origin = "Input") =>
             /\ Head(cmd).by = InputThread
             /\ inputPc = "reply"
             /\ inReply' = << [value |-> Len(sink), asker |-> InputThread] >>
         ]_vars
    /\ [][ (inputPc = "reply" /\ inputPc' = "top") =>
             shown' = Head(inReply).value
         ]_vars

\* a second q has been answered, with another depth than the one printed
\* for the first
C19_Witness ==
    /\ inputPc = "reply" /\ shown # NoReply
    /\ inReply # <<>> /\ inReply[1].value # shown

====
